---- MODULE Spec2Model ----
(***************************************************************************)
(* A model of objathor's asset pipeline                                    *)
(* (objathor/asset_conversion/pipeline_to_thor.py):                        *)
(*   - optimize_assets_for_thor, the per-asset stage sequencer, with the   *)
(*     stages glb_to_thor, obj_to_colliders, the save step and             *)
(*     validate_in_thor, the failure ledger failed_objects, the report     *)
(*     file and the runtime-validation session (controller);               *)
(*   - compute_thor_rotation_to_obtain_min_bounding_box, the grid search   *)
(*     over rotation angles.                                               *)
(* External collaborators (the conversion process, the collider generator, *)
(* the controller, the file system) are nondeterministic inputs of the     *)
(* actions that call them.                                                 *)
(***************************************************************************)
EXTENDS Integers, Sequences, FiniteSets, TLC

VARIABLES
    args,             \* the keyword arguments of optimize_assets_for_thor
    pc,               \* position in optimize_assets_for_thor
    idx,              \* how many items of uid_to_glb_path the loop has taken
    success,          \* the local flag `success` of the loop body
    asset_metadata,   \* the local `asset_metadata` of the loop body
    failed_objects,   \* the failure ledger (OrderedDictWithDefault(dict))
    controller,       \* "None", "given" (the caller's) or "created"
    given_controller, \* line 472
    report,           \* contents of the report file, NoFile when not written
    returned,         \* the value returned to the caller, NotReturned before
    aborted,          \* the bare `except:` of line 631 was entered
    log,              \* every call made to a collaborator and every exception, in order
    last_conversion,  \* what the latest glb_to_thor call met and returned
    previous,         \* the ledger an earlier run returned (empty when none did)
    exit_status,      \* exit status of the interpreter that ran main, once it exited
    rot_in,           \* arguments of compute_thor_rotation_to_obtain_min_bounding_box
    rot_pc,           \* "call" before the function ran, "done" after
    rot_out,          \* its return value, in units of AngleUnit degrees
    call_in,          \* inputs of a function or step that is run on its own
    call_pc,          \* which one ("validate_in_thor", ...), "done" after it ran
    call_out          \* what it returned and left behind

vars == << args, pc, idx, success, asset_metadata, failed_objects, controller,
           given_controller, report, returned, aborted, log,
           last_conversion, previous, exit_status, rot_in, rot_pc, rot_out,
           call_in, call_pc, call_out >>

pipeVars == << args, pc, idx, success, asset_metadata, failed_objects,
               controller, given_controller, report, returned, aborted, log,
               last_conversion, previous, exit_status >>

rotVars == << rot_in, rot_pc, rot_out >>

runVars == << previous, exit_status >>

callVars == << call_in, call_pc, call_out >>

pipeRunVars == << args, pc, idx, success, asset_metadata, failed_objects,
                 controller, given_controller, report, returned, aborted, log,
                 last_conversion >>

(***************************************************************************)
(* Bounds of the model.                                                    *)
(***************************************************************************)
NumAssets == 2

\* The keys of uid_to_glb_path, in the dict's iteration order.
Uids == 1..NumAssets

(***************************************************************************)
(* Failure-reason codes, lines 43-49.                                      *)
(***************************************************************************)
BLENDER_PROCESS_FAIL == "blender_process_fail"
BLENDER_PROCESS_TIMEOUT_FAIL == "blender_process_timeout_fail"
IMAGE_COMPRESS_FAIL == "png_to_jpg_compression_fail"
GENERATE_COLLIDERS_FAIL == "vhacd_generate_colliders_fail"
THOR_CREATE_ASSET_FAIL == "thor_create_asset_fail"
THOR_VIEW_ASSET_FAIL == "thor_view_asset_in_thor_fail"
THOR_PROCESS_FAILURE == "thor_process_fail"

(***************************************************************************)
(* The ledger: a function from the uids that have an entry to their entry, *)
(* an entry being a function from keys to values (a Python dict).          *)
(***************************************************************************)
EmptyDict == [k \in {} |-> ""]

EmptyLedger == [u \in {} |-> EmptyDict]

\* failed_objects[uid] of an OrderedDictWithDefault(dict): a missing key is
\* created with the default value, an empty dict.
GetOrCreate(fo, uid) ==
    IF uid \in DOMAIN fo THEN fo ELSE (uid :> EmptyDict) @@ fo

\* failed_objects[uid][key] = value
SetItem(fo, uid, key, value) ==
    [GetOrCreate(fo, uid) EXCEPT ![uid] = (key :> value) @@ @]

\* failed_objects[uid] = entry
SetEntry(fo, uid, entry) == (uid :> entry) @@ fo

HasReason(fo, uid) ==
    uid \in DOMAIN fo /\ "failure_reason" \in DOMAIN fo[uid]

(***************************************************************************)
(* The log of collaborator calls.                                          *)
(***************************************************************************)
Call(op, uid, res) == [op |-> op, uid |-> uid, res |-> res]

Calls(op, uid) == {i \in DOMAIN log : log[i].op = op /\ log[i].uid = uid}

Called(op, uid) == \E i \in DOMAIN log : log[i].op = op /\ log[i].uid = uid

CalledWith(op, uid, res) ==
    \E i \in DOMAIN log : log[i] = Call(op, uid, res)

(***************************************************************************)
(* glb_to_thor, lines 79-269.                                              *)
(*                                                                         *)
(* What the conversion process does is an input:                           *)
(*   "setup_raises"  os.makedirs (line 92) or the lookup of the Blender    *)
(*              installation (line 105) raises: no try statement guards    *)
(*              them, the exception leaves glb_to_thor;                    *)
(*   "exit0"    communicate() returns and the exit code is 0;              *)
(*   "nonzero"  communicate() returns and the exit code is not 0           *)
(*              (CalledProcessError, line 151);                            *)
(*   "timeout"  communicate() raises TimeoutExpired, the process is killed *)
(*              and reaped (lines 152-158; the wait that follows the kill  *)
(*              is taken to return);                                       *)
(*   "exception" Popen or communicate raises anything else (line 163).     *)
(* `marker` says whether the captured output holds "Progress: 100.00%",    *)
(* `objExists` whether <uid>.obj exists after the run, `compress` whether  *)
(* the compression / rotation / save block of lines 197-261 raises.        *)
(***************************************************************************)
ProcessOutcomes == {"setup_raises", "exit0", "nonzero", "timeout", "exception"}

TimeoutOutcomes == {"timeout"}

OUT_PLAIN == "captured output"
OUT_MARKER == "captured output ... Progress: 100.00%"
OUT_PLAIN_TRACE == "captured output, Exception: trace"
OUT_MARKER_TRACE == "captured output ... Progress: 100.00%, Exception: trace"
OUT_TIMEOUT == "Command timed out, command: blender --background --python ..."
OUT_ERROR == "Blender process error: trace"

\* "Progress: 100.00%" in out
ContainsMarker(out) == out \in {OUT_MARKER, OUT_MARKER_TRACE}

\* `out` after the try statement of lines 139-172.
process_out(proc, marker) ==
    CASE proc = "exit0" -> IF marker THEN OUT_MARKER ELSE OUT_PLAIN
      [] proc = "nonzero" -> IF marker THEN OUT_MARKER_TRACE ELSE OUT_PLAIN_TRACE
      [] proc \in TimeoutOutcomes -> OUT_TIMEOUT
      [] OTHER -> OUT_ERROR

\* As if result_code started at 0 and the handlers of TimeoutExpired and of
\* Exception left it alone.
result_code_unset_by_handlers(proc) ==
    CASE proc = "nonzero" -> 1
      [] OTHER -> 0

\* `result_code` after the try statement of lines 139-172.
result_code(proc) ==
    CASE proc = "exit0" -> 0
      [] proc = "nonzero" -> 1
      [] OTHER -> -1

\* As if line 177 looked at the artifact and not at the exit code.
conversion_success_by_artifact(proc, objExists, out) ==
    IF objExists THEN TRUE ELSE ContainsMarker(out)

\* `success` after lines 177-187: the exit code and the artifact, or else the
\* marker in the output.
conversion_success(proc, objExists, out) ==
    LET ok == result_code(proc) = 0 /\ objExists
    IN  IF ok THEN TRUE ELSE ContainsMarker(out)

\* Lines 189-194: what a failed conversion writes to the ledger.
record_conversion_failure(fo, uid, timeout_hit, out) ==
    LET first == IF timeout_hit
                 THEN SetItem(fo, uid, "blender_output", BLENDER_PROCESS_TIMEOUT_FAIL)
                 ELSE SetItem(fo, uid, "failure_reason", BLENDER_PROCESS_FAIL)
    IN  SetItem(first, uid, "blender_output", out)

\* As if the handler of line 263 reused the code of the conversion proper.
record_compress_failure_as_process_fail(fo, uid) ==
    SetItem(SetItem(fo, uid, "failure_reason", BLENDER_PROCESS_FAIL),
            uid, "exception", "trace")

\* Lines 263-267: what a failed compression block writes to the ledger.
record_compress_failure(fo, uid) ==
    SetItem(SetItem(fo, uid, "failure_reason", IMAGE_COMPRESS_FAIL),
            uid, "exception", "trace")

\* As if the handler of TimeoutExpired left the process alone.
timeout_cleanup_abandons(uid) == << >>

\* Lines 152-155: the handler of TimeoutExpired kills the process that Popen
\* started and waits for it.
timeout_cleanup(uid) == << Call("kill", uid, "ok"), Call("wait", uid, "ok") >>

\* In `calls`, "conversion" is the one Popen / communicate of lines 140-145
\* with the verdict of line 177-187 on it; a timeout puts the expiry of
\* communicate and the handler's calls before it.
glb_to_thor(uid, fo, proc, objExists, marker, compress) ==
    LET out == process_out(proc, marker)
        timeout_hit == proc \in TimeoutOutcomes
        handler == IF timeout_hit
                   THEN << Call("communicate", uid, "timeout") >> \o timeout_cleanup(uid)
                   ELSE << >>
    IN  IF proc = "setup_raises"
        THEN [raised |-> TRUE, success |-> FALSE, failed_objects |-> fo,
              calls |-> << Call("conversion", uid, "raised") >>]
        ELSE IF ~conversion_success(proc, objExists, out)
        THEN [raised |-> FALSE, success |-> FALSE,
              failed_objects |-> record_conversion_failure(fo, uid, timeout_hit, out),
              calls |-> handler \o << Call("conversion", uid, "fail") >>]
        ELSE IF compress = "raise"
        THEN [raised |-> FALSE, success |-> FALSE,
              failed_objects |-> record_compress_failure(fo, uid),
              calls |-> handler \o << Call("conversion", uid, "ok"),
                                      Call("compress", uid, "fail") >>]
        ELSE [raised |-> FALSE, success |-> TRUE, failed_objects |-> fo,
              calls |-> handler \o << Call("conversion", uid, "ok"),
                                      Call("compress", uid, "ok") >>]

(***************************************************************************)
(* obj_to_colliders, lines 333-363.  generate_colliders returns a result   *)
(* without the failed flag ("ok"), with it ("failed"), or raises ("raise", *)
(* which also covers a result_info without the uid).                       *)
(***************************************************************************)
ColliderOutcomes == {"ok", "failed", "raise"}

\* As if the handler of line 357 set success to False and recorded nothing.
obj_to_colliders_unrecorded_exception(uid, fo, res) ==
    CASE res = "failed" ->
           [success |-> FALSE,
            failed_objects |->
                SetItem(SetItem(fo, uid, "failure_reason", GENERATE_COLLIDERS_FAIL),
                        uid, "generate_colliders_info", "result_info"),
            calls |-> << Call("colliders", uid, "fail") >>]
      [] res = "raise" ->
           [success |-> FALSE, failed_objects |-> fo,
            calls |-> << Call("colliders", uid, "fail") >>]
      [] OTHER ->
           [success |-> TRUE, failed_objects |-> fo,
            calls |-> << Call("colliders", uid, "ok") >>]

\* As if an exception of generate_colliders led to a second call, which
\* succeeds.
obj_to_colliders_retrying(uid, fo, res) ==
    CASE res = "failed" ->
           [success |-> FALSE,
            failed_objects |->
                SetItem(SetItem(fo, uid, "failure_reason", GENERATE_COLLIDERS_FAIL),
                        uid, "generate_colliders_info", "result_info"),
            calls |-> << Call("colliders", uid, "fail") >>]
      [] res = "raise" ->
           [success |-> TRUE, failed_objects |-> fo,
            calls |-> << Call("colliders", uid, "raised"), Call("colliders", uid, "ok") >>]
      [] OTHER ->
           [success |-> TRUE, failed_objects |-> fo,
            calls |-> << Call("colliders", uid, "ok") >>]

obj_to_colliders(uid, fo, res) ==
    CASE res = "failed" ->
           [success |-> FALSE,
            failed_objects |->
                SetItem(SetItem(fo, uid, "failure_reason", GENERATE_COLLIDERS_FAIL),
                        uid, "generate_colliders_info", "result_info"),
            calls |-> << Call("colliders", uid, "fail") >>]
      [] res = "raise" ->
           [success |-> FALSE,
            failed_objects |->
                SetItem(SetItem(fo, uid, "failure_reason", GENERATE_COLLIDERS_FAIL),
                        uid, "generate_colliders_exception", "trace"),
            calls |-> << Call("colliders", uid, "fail") >>]
      [] OTHER ->
           [success |-> TRUE, failed_objects |-> fo,
            calls |-> << Call("colliders", uid, "ok") >>]

(***************************************************************************)
(* validate_in_thor, lines 366-433.  Inputs: whether controller.reset and  *)
(* the cache-clearing step raise; what create_asset does ("ok" with        *)
(* metadata, "ok_no_metadata" with actionReturn None, "fail" with          *)
(* lastActionSuccess false, "raise"); what view_asset_in_thor does.        *)
(***************************************************************************)
CallOutcomes == {"ok", "raise"}

LoadOutcomes == {"ok", "ok_no_metadata", "fail", "raise"}

RenderOutcomes == {"ok", "fail", "raise"}

\* As if a failed render were recorded under the code of a failed load.
thor_entry_one_code(reason) ==
    IF reason = THOR_PROCESS_FAILURE
    THEN [failure_reason |-> reason, exception |-> "trace",
          lastAction |-> "last_action", errorMessage |-> "error"]
    ELSE [failure_reason |-> THOR_CREATE_ASSET_FAIL,
          lastAction |-> "last_action", errorMessage |-> "error"]

thor_entry(reason) ==
    IF reason = THOR_PROCESS_FAILURE
    THEN [failure_reason |-> reason, exception |-> "trace",
          lastAction |-> "last_action", errorMessage |-> "error"]
    ELSE [failure_reason |-> reason,
          lastAction |-> "last_action", errorMessage |-> "error"]

\* As if validate_in_thor reset the scene and kept the asset cache.
reset_session_keeping_cache(uid) == << Call("reset", uid, "ok") >>

\* Lines 379-380, both returning: controller.reset(scene="Procedural") and
\* the step DeleteLRUFromProceduralCache with assetLimit=0.
reset_session(uid) == << Call("reset", uid, "ok"), Call("cache_clear", uid, "ok") >>

validate_in_thor(uid, fo, reset, cache, load, render, skip_images) ==
    LET metadata == IF load = "ok" THEN "metadata" ELSE "None"
        pre == reset_session(uid)
        failed(reason, md, calls) ==
            [raised |-> FALSE, success |-> FALSE, asset_metadata |-> md,
             failed_objects |-> SetEntry(fo, uid, thor_entry(reason)),
             calls |-> pre \o calls]
    IN  IF reset = "raise"
        THEN [raised |-> TRUE, success |-> FALSE, asset_metadata |-> "None",
              failed_objects |-> fo,
              calls |-> << Call("reset", uid, "raised") >>]
        ELSE IF cache = "raise"
        THEN [raised |-> TRUE, success |-> FALSE, asset_metadata |-> "None",
              failed_objects |-> fo,
              calls |-> << Call("reset", uid, "ok"), Call("cache_clear", uid, "raised") >>]
        ELSE IF load = "raise"
        THEN failed(THOR_PROCESS_FAILURE, "None", << Call("load", uid, "fail") >>)
        ELSE IF load = "fail"
        THEN failed(THOR_CREATE_ASSET_FAIL, "None", << Call("load", uid, "fail") >>)
        ELSE IF skip_images
        THEN [raised |-> FALSE, success |-> TRUE, asset_metadata |-> metadata,
              failed_objects |-> fo,
              calls |-> pre \o << Call("load", uid, "ok") >>]
        ELSE IF render = "raise"
        THEN failed(THOR_PROCESS_FAILURE, "None",
                    << Call("load", uid, "ok"), Call("render", uid, "fail") >>)
        ELSE IF render = "fail"
        THEN failed(THOR_VIEW_ASSET_FAIL, metadata,
                    << Call("load", uid, "ok"), Call("render", uid, "fail") >>)
        ELSE [raised |-> FALSE, success |-> TRUE, asset_metadata |-> metadata,
              failed_objects |-> fo,
              calls |-> pre \o << Call("load", uid, "ok"), Call("render", uid, "ok") >>]

(***************************************************************************)
(* optimize_assets_for_thor, lines 436-640.                                *)
(*                                                                         *)
(* The arguments that only shape a collaborator's work (max_colliders,     *)
(* extension, width, height, ...) are left out, and add_visualize_thor_    *)
(* actions is left at its default False.  Writing the report file is taken *)
(* to succeed.                                                             *)
(***************************************************************************)
NoFile == << >>

NoConversion == [uid |-> 0, proc |-> "none", objExists |-> FALSE,
                 marker |-> FALSE, compress |-> "none", success |-> FALSE]

NotReturned == << >>

\* The uid the loop body is working on.
uid == idx

Args ==
    [skip_conversion : BOOLEAN, skip_colliders : BOOLEAN,
     skip_thor_metadata : BOOLEAN, skip_thor_render : BOOLEAN,
     report_out_file_name : {"None", "failed_objects.json"},
     timeout : {"None", "seconds"}]

\* As if the ledger were an object that outlives the call (a module-level
\* dict, a mutable default argument).
ledger_kept_across_runs(earlier) == earlier

\* Line 468: every call starts on a new OrderedDictWithDefault, whatever an
\* earlier call returned.
new_ledger(earlier) == EmptyLedger

\* No exit status yet.
Running == << >>

\* No function is run on its own.
CallOff ==
    /\ call_in = << >>
    /\ call_pc = "off"
    /\ call_out = << >>

\* The state at line 473, on entering the try statement.
Init ==
    /\ args \in Args
    /\ previous = EmptyLedger
    /\ exit_status = Running
    /\ controller \in {"None", "given"}
    /\ given_controller = (controller # "None")
    /\ pc = "loop"
    /\ idx = 0
    /\ success = TRUE
    /\ asset_metadata = "None"
    /\ failed_objects = new_ledger(previous)
    /\ report = NoFile
    /\ returned = NotReturned
    /\ aborted = FALSE
    /\ log = << >>
    /\ last_conversion = NoConversion
    /\ rot_in = << >>
    /\ rot_pc = "off"
    /\ rot_out = 0
    /\ CallOff

\* As if the try statement were inside the loop body and an exception only
\* ended the pass for the asset at hand.
Raise_skips_the_asset ==
    /\ pc' = "loop"
    /\ aborted' = aborted

\* An exception leaves the loop for the bare except of line 631, which prints
\* the trace and falls through to the finally clause.
Raise ==
    /\ pc' = "finally"
    /\ aborted' = TRUE

\* Lines 474-495: the loop takes the next item and looks up its annotations.
\* annotations_path is a file ("file"), or a directory that holds the asset's
\* annotations ("found") or does not ("missing", RuntimeError of line 489).
AnnotationLookups == {"file", "found", "missing"}

NextAsset ==
    /\ pc = "loop"
    /\ idx < NumAssets
    /\ idx' = idx + 1
    /\ \E ann \in AnnotationLookups :
         IF ann = "missing"
         THEN /\ Raise
              /\ log' = Append(log, Call("annotations", idx + 1, "raised"))
              /\ UNCHANGED success
         ELSE /\ pc' = "conversion"
              /\ success' = TRUE
              /\ UNCHANGED << aborted, log >>
    /\ UNCHANGED << args, asset_metadata, failed_objects, controller,
                    given_controller, report, returned, last_conversion, rotVars, runVars, callVars >>

\* As if line 512 read `if not skip_colliders:`.
run_colliders_whatever_came_before(ok, a) == ~a.skip_colliders

\* As if line 527 read `if success:`.
run_save_on_success(ok, a) == ok

\* The conditions of lines 496, 512, 527 and 570 under which a stage runs;
\* `ok` is the flag `success` at that line.
run_conversion(a) == ~a.skip_conversion

run_colliders(ok, a) == ok /\ ~a.skip_colliders

run_save(ok, a) == ok /\ ~a.skip_conversion /\ ~a.skip_colliders

run_validation(ok, a) == ok /\ ~a.skip_thor_metadata

\* Lines 496-510.
Conversion ==
    /\ pc = "conversion"
    /\ IF ~run_conversion(args)
       THEN /\ pc' = "colliders"
            /\ UNCHANGED << success, failed_objects, aborted, log, last_conversion >>
       ELSE \E proc \in ProcessOutcomes, objExists \in BOOLEAN,
               marker \in BOOLEAN, compress \in CallOutcomes :
              /\ proc \in TimeoutOutcomes => args.timeout # "None"
              /\ LET r == glb_to_thor(uid, failed_objects, proc, objExists,
                                      marker, compress)
                 IN  /\ log' = log \o r.calls
                     /\ failed_objects' = r.failed_objects
                     /\ last_conversion' =
                            [uid |-> uid, proc |-> proc, objExists |-> objExists,
                             marker |-> marker, compress |-> compress,
                             success |-> r.success]
                     /\ IF r.raised
                        THEN Raise /\ UNCHANGED success
                        ELSE /\ pc' = "colliders"
                             /\ success' = r.success
                             /\ UNCHANGED aborted
    /\ UNCHANGED << args, idx, asset_metadata, controller, given_controller,
                    report, returned, rotVars, runVars, callVars >>

\* Lines 512-525.
Colliders ==
    /\ pc = "colliders"
    /\ pc' = "save"
    /\ IF run_colliders(success, args)
       THEN \E res \in ColliderOutcomes :
              LET r == obj_to_colliders(uid, failed_objects, res)
              IN  /\ log' = log \o r.calls
                  /\ failed_objects' = r.failed_objects
                  /\ success' = r.success
       ELSE UNCHANGED << success, failed_objects, log >>
    /\ UNCHANGED << args, idx, asset_metadata, controller, given_controller,
                    report, returned, aborted, last_conversion, rotVars, runVars, callVars >>

\* Lines 527-567: the save / re-encode step, which no try statement guards.
\* Line 569 resets asset_metadata.
Save ==
    /\ pc = "save"
    /\ IF run_save(success, args)
       THEN \E res \in CallOutcomes :
              IF res = "raise"
              THEN /\ Raise
                   /\ log' = Append(log, Call("save", uid, "raised"))
                   /\ UNCHANGED asset_metadata
              ELSE /\ pc' = "validate"
                   /\ log' = Append(log, Call("save", uid, "ok"))
                   /\ asset_metadata' = "None"
                   /\ UNCHANGED aborted
       ELSE /\ pc' = "validate"
            /\ asset_metadata' = "None"
            /\ UNCHANGED << aborted, log >>
    /\ UNCHANGED << args, idx, success, failed_objects, controller,
                    given_controller, report, returned, last_conversion, rotVars, runVars, callVars >>

\* As if line 575 were missing and every validation started a session of
\* its own, unless the caller gave one.
creates_controller_each_time(ctrl) == ctrl # "given"

\* Line 575: `if not controller:`.
creates_controller(ctrl) == ctrl = "None"

\* Lines 570-610: create the controller when there is none, validate, assert
\* that a validated asset has metadata.
Validate ==
    /\ pc = "validate"
    /\ IF run_validation(success, args)
       THEN \E create \in CallOutcomes, reset \in CallOutcomes,
               cache \in CallOutcomes, load \in LoadOutcomes,
               render \in RenderOutcomes :
              IF creates_controller(controller) /\ create = "raise"
              THEN /\ Raise
                   /\ log' = Append(log, Call("create_controller", uid, "raised"))
                   /\ UNCHANGED << success, asset_metadata, failed_objects, controller >>
              ELSE LET r == validate_in_thor(uid, failed_objects, reset, cache,
                                             load, render, args.skip_thor_render)
                       made == IF creates_controller(controller)
                               THEN << Call("create_controller", uid, "ok") >>
                               ELSE << >>
                       unmet == IF ~r.raised /\ r.success /\ r.asset_metadata = "None"
                                THEN << Call("assert_metadata", uid, "raised") >>
                                ELSE << >>
                   IN  /\ controller' = IF creates_controller(controller) THEN "created"
                                        ELSE controller
                       /\ log' = log \o made \o r.calls \o unmet
                       /\ failed_objects' = r.failed_objects
                       /\ IF r.raised
                          THEN UNCHANGED << success, asset_metadata >>
                          ELSE /\ success' = r.success
                               /\ asset_metadata' = r.asset_metadata
                       /\ IF r.raised \/ (r.success /\ r.asset_metadata = "None")
                          THEN Raise
                          ELSE /\ pc' = "metadata"
                               /\ UNCHANGED aborted
       ELSE /\ pc' = "loop"
            /\ UNCHANGED << success, asset_metadata, failed_objects, controller,
                            aborted, log >>
    /\ UNCHANGED << args, idx, given_controller, report, returned,
                    last_conversion, rotVars, runVars, callVars >>

\* As if line 612 looked at the metadata alone.
writes_metadata_when_present(ok, metadata) == metadata # "None"

\* Line 612.
writes_metadata(ok, metadata) == ok /\ metadata # "None"

\* Lines 612-619: thor_metadata.json.
WriteMetadata ==
    /\ pc = "metadata"
    /\ IF writes_metadata(success, asset_metadata)
       THEN \E res \in CallOutcomes :
              IF res = "raise"
              THEN /\ Raise
                   /\ log' = Append(log, Call("write_metadata", uid, "raised"))
              ELSE /\ pc' = "loop"
                   /\ log' = Append(log, Call("write_metadata", uid, "ok"))
                   /\ UNCHANGED aborted
       ELSE /\ pc' = "loop"
            /\ UNCHANGED << aborted, log >>
    /\ UNCHANGED << args, idx, success, asset_metadata, failed_objects,
                    controller, given_controller, report, returned,
                    last_conversion, rotVars, runVars, callVars >>

\* Lines 621-629: after the loop, the report file.
write_report(name, fo) == name # "None" /\ DOMAIN fo # {}

Report ==
    /\ pc = "loop"
    /\ idx = NumAssets
    /\ pc' = "finally"
    /\ report' = IF write_report(args.report_out_file_name, failed_objects)
                 THEN << failed_objects >>
                 ELSE report
    /\ UNCHANGED << args, idx, success, asset_metadata, failed_objects,
                    controller, given_controller, returned, aborted, log,
                    last_conversion, rotVars, runVars, callVars >>

\* As if controller.stop() ended the try block instead of sitting in finally.
finally_stops_unless_aborted(given, ctrl, abort) ==
    ~given /\ ctrl # "None" /\ ~abort

\* As if the except clause handed back a fresh ledger.
return_value_lost_on_abort(fo, abort) == IF abort THEN EmptyLedger ELSE fo

\* Lines 633-638: whether controller.stop() is reached and has a controller
\* to act on (on None the AttributeError is swallowed).
finally_stops(given, ctrl, abort) == ~given /\ ctrl # "None"

\* Line 640.
return_value(fo, abort) == fo

\* Lines 633-640: the finally clause and the return.
Finally ==
    /\ pc = "finally"
    /\ pc' = "returned"
    /\ IF finally_stops(given_controller, controller, aborted)
       THEN \E res \in CallOutcomes :
              log' = Append(log, Call("stop", 0,
                                      IF res = "raise" THEN "raised" ELSE "ok"))
       ELSE UNCHANGED log
    /\ returned' = << return_value(failed_objects, aborted) >>
    /\ UNCHANGED << args, idx, success, asset_metadata, failed_objects,
                    controller, given_controller, report, aborted,
                    last_conversion, rotVars, runVars, callVars >>

\* Lines 643-647 and 822-844: main calls optimize_assets_for_thor without a
\* controller, a timeout or a report file name of its own.
CalledFromMain ==
    /\ ~given_controller
    /\ args.timeout = "None"
    /\ args.report_out_file_name = "failed_objects.json"

\* Lines 822-848: main drops the value optimize_assets_for_thor returns and
\* returns None itself; the module ends with main(sys.argv[1:]), so the
\* interpreter exits with status 0.
main_exit_status(ledger) == 0

MainExit ==
    /\ pc = "returned"
    /\ CalledFromMain
    /\ exit_status = Running
    /\ exit_status' = << main_exit_status(returned[1]) >>
    /\ UNCHANGED << pipeRunVars, previous, rotVars, callVars >>

Next ==
    \/ NextAsset
    \/ Conversion
    \/ Colliders
    \/ Save
    \/ Validate
    \/ WriteMetadata
    \/ Report
    \/ Finally
    \/ MainExit

Spec == Init /\ [][Next]_vars

(***************************************************************************)
(* A run that follows an earlier run on the same batch, with no skip flag  *)
(* set.  The earlier run returned the ledger `previous` (one of the two    *)
(* below: every asset succeeded, or the conversion of asset 1 failed) and, *)
(* when that ledger was not empty and a report file name was given, left   *)
(* its report file behind.  Nothing else of the earlier run is in reach of *)
(* the new call.                                                           *)
(***************************************************************************)
PreviousLedgers ==
    {EmptyLedger,
     record_conversion_failure(EmptyLedger, 1, FALSE, OUT_PLAIN_TRACE)}

InitRerun ==
    /\ args \in {a \in Args : /\ ~a.skip_conversion /\ ~a.skip_colliders
                               /\ ~a.skip_thor_metadata /\ ~a.skip_thor_render}
    /\ previous \in PreviousLedgers
    /\ exit_status = Running
    /\ controller \in {"None", "given"}
    /\ given_controller = (controller # "None")
    /\ pc = "loop"
    /\ idx = 0
    /\ success = TRUE
    /\ asset_metadata = "None"
    /\ failed_objects = new_ledger(previous)
    /\ report = IF write_report(args.report_out_file_name, previous)
                THEN << previous >>
                ELSE NoFile
    /\ returned = NotReturned
    /\ aborted = FALSE
    /\ log = << >>
    /\ last_conversion = NoConversion
    /\ rot_in = << >>
    /\ rot_pc = "off"
    /\ rot_out = 0
    /\ CallOff

SpecRerun == InitRerun /\ [][Next]_vars

(***************************************************************************)
(* What the log says of an asset.                                          *)
(***************************************************************************)
Stages == {"conversion", "colliders", "validation"}

\* The collaborator calls each stage makes.
StageOps(stage) ==
    CASE stage = "conversion" -> {"conversion", "compress"}
      [] stage = "colliders" -> {"colliders"}
      [] stage = "validation" -> {"create_controller", "reset", "cache_clear",
                                  "load", "render", "assert_metadata",
                                  "write_metadata"}

\* The stages that come after a stage, the save step among them.
LaterOps(stage) ==
    CASE stage = "conversion" ->
           StageOps("colliders") \cup {"save"} \cup StageOps("validation")
      [] stage = "colliders" -> {"save"} \cup StageOps("validation")
      [] stage = "validation" -> {}

\* The failure-reason codes of each stage.
StageCodes(stage) ==
    CASE stage = "conversion" ->
           {BLENDER_PROCESS_FAIL, BLENDER_PROCESS_TIMEOUT_FAIL, IMAGE_COMPRESS_FAIL}
      [] stage = "colliders" -> {GENERATE_COLLIDERS_FAIL}
      [] stage = "validation" ->
           {THOR_CREATE_ASSET_FAIL, THOR_VIEW_ASSET_FAIL, THOR_PROCESS_FAILURE}

\* The stage reported failure for the asset (it returned False).
FailedAt(u, stage) ==
    \E i \in DOMAIN log :
        log[i].uid = u /\ log[i].op \in StageOps(stage) /\ log[i].res = "fail"

\* The first stage the arguments do not skip was started for the asset.
Attempted(u) ==
    IF ~args.skip_conversion THEN Called("conversion", u)
    ELSE IF ~args.skip_colliders THEN Called("colliders", u)
    ELSE IF ~args.skip_thor_metadata
         THEN \E op \in StageOps("validation") : Called(op, u)
    ELSE TRUE

AnnotationsMissing == \E i \in DOMAIN log : log[i].op = "annotations"

Created == \E i \in DOMAIN log : log[i].op = "create_controller" /\ log[i].res = "ok"

StopCalls == {i \in DOMAIN log : log[i].op = "stop"}

(***************************************************************************)
(* C1.  When the run has returned and every asset either passed its stages *)
(* or failed at one of them (no exception left a stage), the returned      *)
(* ledger holds exactly the assets that failed, each with failure_reason a *)
(* code of the stage it failed at, and no later stage was called for it.   *)
(* The code breaks it for a conversion that timed out: the entry has no    *)
(* failure_reason at all.                                                  *)
(***************************************************************************)
C1_LedgerMatchesFailures ==
    (pc = "returned" /\ ~aborted) =>
        \A u \in Uids :
            /\ u \in DOMAIN returned[1] <=> \E s \in Stages : FailedAt(u, s)
            /\ \A s \in Stages :
                 FailedAt(u, s) =>
                    /\ HasReason(returned[1], u)
                    /\ returned[1][u]["failure_reason"] \in StageCodes(s)
                    /\ \A op \in LaterOps(s) : ~Called(op, u)

(***************************************************************************)
(* C2.  The batch attempts every requested asset: when the run has         *)
(* returned (and no annotations were missing, which the code makes fatal   *)
(* on purpose), every asset had its first non-skipped stage started, and   *)
(* every asset a stage failed or raised for has a ledger entry.  The code  *)
(* breaks it: an exception of the save step, the session reset, the        *)
(* controller's creation, the metadata write or the setup of the           *)
(* conversion ends the loop.                                               *)
(***************************************************************************)
C2_BatchAttemptsEveryAsset ==
    (pc = "returned" /\ ~AnnotationsMissing) =>
        \A u \in Uids :
            /\ Attempted(u)
            /\ \A i \in DOMAIN log :
                 (log[i].uid = u /\ log[i].res \in {"fail", "raised"})
                    => u \in DOMAIN failed_objects

(***************************************************************************)
(* C3.  A conversion that timed out returns failure and leaves an entry    *)
(* whose failure_reason is the timeout code and whose diagnostic records   *)
(* the command.  The code stores the timeout code under "blender_output"   *)
(* and overwrites it with the diagnostic: no failure_reason is set.        *)
(***************************************************************************)
C3_TimeoutReason ==
    (last_conversion.proc = "timeout") =>
        LET u == last_conversion.uid
        IN  /\ ~last_conversion.success
            /\ u \in DOMAIN failed_objects
            /\ HasReason(failed_objects, u)
            /\ failed_objects[u]["failure_reason"] = BLENDER_PROCESS_TIMEOUT_FAIL
            /\ failed_objects[u]["blender_output"] = OUT_TIMEOUT

(***************************************************************************)
(* C4.  At the return of a run that was given a report file name, the      *)
(* report file is written with the ledger as its contents when the ledger  *)
(* is not empty, and not written when it is empty.  The code breaks it     *)
(* when an exception ends the loop: lines 621-625 are skipped.             *)
(***************************************************************************)
C4_ReportIffFailures ==
    (pc = "returned" /\ args.report_out_file_name # "None") =>
        IF DOMAIN failed_objects # {}
        THEN report = << failed_objects >>
        ELSE report = NoFile

(***************************************************************************)
(* C5.  A conversion that failed (nonzero exit, or no <uid>.obj) counts as *)
(* a success only when the artifact is present and the marker is in the    *)
(* output.  The code looks at the marker alone.                            *)
(***************************************************************************)
C5_OverrideNeedsArtifactAndMarker ==
    (/\ last_conversion.proc # "none"
     /\ last_conversion.success
     /\ ~(last_conversion.proc = "exit0" /\ last_conversion.objExists))
        => (last_conversion.objExists /\ last_conversion.marker)

(***************************************************************************)
(* C6.  The session is stopped iff this run created it: stop is called     *)
(* only on a controller the run created, a created controller has been     *)
(* stopped (once) when the run returns, on the normal and on the aborted   *)
(* path, and a controller the caller gave is never stopped nor replaced.   *)
(***************************************************************************)
C6_SessionTeardown ==
    /\ StopCalls # {} => Created
    /\ pc = "returned" => (Created => Cardinality(StopCalls) = 1)
    /\ given_controller =>
          /\ controller = "given"
          /\ StopCalls = {}
          /\ \A i \in DOMAIN log : log[i].op # "create_controller"

C6_Witness ==
    pc = "returned" /\ aborted /\ Created /\ StopCalls # {}

(***************************************************************************)
(* C7.  The run returns the ledger on every exit path: at the return the   *)
(* caller has the ledger, and it holds an entry for every asset a stage    *)
(* recorded a failure for, also when an exception ended the loop.          *)
(***************************************************************************)
C7_LedgerReturned ==
    pc = "returned" =>
        /\ Len(returned) = 1
        /\ returned[1] = failed_objects
        /\ \A u \in Uids :
             (\E s \in Stages : FailedAt(u, s)) => u \in DOMAIN returned[1]

C7_Witness ==
    /\ pc = "returned"
    /\ aborted
    /\ Len(returned) = 1
    /\ \E u \in Uids : u \in DOMAIN returned[1] /\ FailedAt(u, "conversion")

(***************************************************************************)
(* compute_thor_rotation_to_obtain_min_bounding_box, lines 282-330.        *)
(*                                                                         *)
(* Angles are counted in steps of 15 degrees (-6 .. 6 is -90 .. 90         *)
(* degrees) and the cosines and sines of those angles are taken times      *)
(* 1000, rounded: the floating point of numpy is replaced by fixed point.  *)
(* Coordinates are small naturals.                                         *)
(***************************************************************************)
MaxCoord == 2

NumVertices == 2

Abs(n) == IF n < 0 THEN -n ELSE n

CosTable == << 1000, 966, 866, 707, 500, 259, 0 >>

\* np.cos and np.sin of an angle of a steps, times 1000.
Cos(a) == CosTable[Abs(a) + 1]

Sin(a) == IF a < 0 THEN -CosTable[7 - Abs(a)] ELSE CosTable[7 - a]

SetMin(S) == CHOOSE m \in S : \A n \in S : m <= n

SetMax(S) == CHOOSE m \in S : \A n \in S : m >= n

\* np.matmul(get_rotmat(theta), vertices_arr), lines 307-321: the rotation
\* about the y axis of every vertex.
rotate(vertices, theta) ==
    { [x |-> Cos(theta) * v.x - Sin(theta) * v.z,
       y |-> v.y,
       z |-> Sin(theta) * v.x + Cos(theta) * v.z] : v \in vertices }

\* Lines 272-279.
compute_axis_aligned_bbox_volume(vertices) ==
    LET xs == {v.x : v \in vertices}
        ys == {v.y : v \in vertices}
        zs == {v.z : v \in vertices}
    IN  (SetMax(xs) - SetMin(xs)) * (SetMax(ys) - SetMin(ys))
            * (SetMax(zs) - SetMin(zs))

\* np.linspace(start, stop, num) with the default endpoint=True: num samples
\* from start to stop, and the one sample start when num is 1.
linspace(start, stop, num) ==
    IF num = 1
    THEN << start >>
    ELSE [i \in 1..num |-> start + (i - 1) * ((stop - start) \div (num - 1))]

\* Lines 318-324: the volume of every candidate, times 100, the middle one
\* scaled by 1 - bias_for_no_rotation (the bias is given in percent).
biased_volumes(vertices, thetas, bias) ==
    LET mid == (Len(thetas) \div 2) + 1
    IN  [i \in 1..Len(thetas) |->
            compute_axis_aligned_bbox_volume(rotate(vertices, thetas[i]))
                * (IF i = mid THEN 100 - bias ELSE 100)]

\* As if ties went to the last least element.
argmin_last(volumes) ==
    CHOOSE i \in 1..Len(volumes) :
        /\ \A j \in 1..Len(volumes) : volumes[i] <= volumes[j]
        /\ \A j \in (i + 1)..Len(volumes) : volumes[j] > volumes[i]

\* np.argmin: the first index of a least element.
argmin(volumes) ==
    CHOOSE i \in 1..Len(volumes) :
        /\ \A j \in 1..Len(volumes) : volumes[i] <= volumes[j]
        /\ \A j \in 1..(i - 1) : volumes[j] > volumes[i]

\* The function as it would be if line 330 negated the index np.argmin found
\* rather than the angle stored at that index.
rotation_from_argmin_index(vertices, max_deg_change, increments, bias_for_no_rotation) ==
    LET thetas == linspace(-max_deg_change, max_deg_change, increments)
        volumes == biased_volumes(vertices, thetas, bias_for_no_rotation)
    IN  -(argmin(volumes) - 1)

compute_thor_rotation_to_obtain_min_bounding_box(vertices, max_deg_change, increments, bias_for_no_rotation) ==
    LET thetas == linspace(-max_deg_change, max_deg_change, increments)
        volumes == biased_volumes(vertices, thetas, bias_for_no_rotation)
        min_volume_theta == thetas[argmin(volumes)]
    IN  -min_volume_theta

Coords == 0..MaxCoord

Points == [x : Coords, y : 0..1, z : Coords]

\* The vertices of a list of NumVertices points (which may repeat).
VertexSets == { {vs[i] : i \in 1..NumVertices} : vs \in [1..NumVertices -> Points] }

\* max_deg_change: 0, 30, 60 and 90 degrees.
MaxDegChanges == {0, 2, 4, 6}

\* increments: odd and at least 1 (line 299); 1, 3 and 5 divide the ranges above.
Increments == {1, 3, 5}

\* bias_for_no_rotation in percent: none, the default 0.01, and a half.
Biases == {0, 1, 50}

RotArgs ==
    [vertices : VertexSets, max_deg_change : MaxDegChanges,
     increments : Increments, bias_for_no_rotation : Biases]

InitRot ==
    /\ rot_in \in RotArgs
    /\ rot_pc = "call"
    /\ rot_out = 0
    /\ args = [skip_conversion |-> FALSE, skip_colliders |-> FALSE,
               skip_thor_metadata |-> FALSE, skip_thor_render |-> FALSE,
               report_out_file_name |-> "failed_objects.json",
               timeout |-> "None"]
    /\ controller = "None"
    /\ given_controller = FALSE
    /\ pc = "off"
    /\ idx = 0
    /\ success = TRUE
    /\ asset_metadata = "None"
    /\ failed_objects = EmptyLedger
    /\ report = NoFile
    /\ returned = NotReturned
    /\ aborted = FALSE
    /\ log = << >>
    /\ last_conversion = NoConversion
    /\ previous = EmptyLedger
    /\ exit_status = Running
    /\ CallOff

RotCall ==
    /\ rot_pc = "call"
    /\ rot_pc' = "done"
    /\ rot_out' = compute_thor_rotation_to_obtain_min_bounding_box(
                     rot_in.vertices, rot_in.max_deg_change,
                     rot_in.increments, rot_in.bias_for_no_rotation)
    /\ UNCHANGED << rot_in, pipeVars, callVars >>

NextRot == RotCall

SpecRot == InitRot /\ [][NextRot]_vars

\* The angles the call sampled, and the volume of the box at an angle.
SampledGrid ==
    LET thetas == linspace(-rot_in.max_deg_change, rot_in.max_deg_change,
                           rot_in.increments)
    IN  {thetas[i] : i \in 1..Len(thetas)}

VolumeAt(theta) == compute_axis_aligned_bbox_volume(rotate(rot_in.vertices, theta))

(***************************************************************************)
(* C8.  With increments = 1 the function returns 0, whatever the vertices  *)
(* and max_deg_change.  The code breaks it: np.linspace with num=1 yields  *)
(* the start of the range, -max_deg_change, and the function returns       *)
(* max_deg_change.                                                         *)
(***************************************************************************)
C8_OneIncrementReturnsZero ==
    (rot_pc = "done" /\ rot_in.increments = 1) => rot_out = 0

(***************************************************************************)
(* C9.  The returned angle is one of the sampled angles.  The code breaks  *)
(* it with increments = 1: the one sample is -max_deg_change and its       *)
(* negation is returned.                                                   *)
(***************************************************************************)
C9_ResultOnGrid ==
    rot_pc = "done" => rot_out \in SampledGrid

(***************************************************************************)
(* C10.  When the zero-angle volume scaled by 1 - bias is below the volume *)
(* of every other candidate, the function returns 0.  The code breaks it   *)
(* with increments = 1, where the candidate it takes for "no rotation" is  *)
(* -max_deg_change.                                                        *)
(***************************************************************************)
C10_BiasPrefersZero ==
    (/\ rot_pc = "done"
     /\ \A theta \in SampledGrid \ {0} :
           VolumeAt(0) * (100 - rot_in.bias_for_no_rotation) < VolumeAt(theta) * 100)
        => rot_out = 0

(***************************************************************************)
(* C11.  With max_deg_change = 0 the function returns 0, whatever the      *)
(* vertices, the odd increments >= 1 and the bias: every sampled angle is  *)
(* 0, so the one with the least volume is 0 too.  This covers              *)
(* increments = 1, where the one sample is the start of the range, -0.     *)
(***************************************************************************)
C11_ZeroBudgetReturnsZero ==
    (rot_pc = "done" /\ rot_in.max_deg_change = 0) => rot_out = 0

\* A call with no budget on a body of non-zero volume, with several samples
\* of which the biased middle one is strictly the least.
C11_Witness ==
    /\ rot_pc = "done"
    /\ rot_in.max_deg_change = 0
    /\ rot_in.increments = 5
    /\ rot_in.bias_for_no_rotation > 0
    /\ VolumeAt(0) > 0
    /\ rot_out = 0

\* The same with a single sample.
C11_WitnessOneIncrement ==
    /\ rot_pc = "done"
    /\ rot_in.max_deg_change = 0
    /\ rot_in.increments = 1
    /\ VolumeAt(0) > 0
    /\ rot_out = 0

(***************************************************************************)
(* C12.  At every point of a run an asset has a ledger entry iff one of    *)
(* its stages reported failure; only one stage did, no later stage was     *)
(* called for the asset, and the failure_reason of the entry, when it has  *)
(* one, is a code of that stage.  No step changes or extends an entry that *)
(* is in the ledger.  (The entry of a conversion that timed out is the one *)
(* entry with no failure_reason: "at most one" holds of it.)               *)
(***************************************************************************)
C12_EntryNamesFirstFailure ==
    \A u \in Uids :
        /\ u \in DOMAIN failed_objects <=> \E s \in Stages : FailedAt(u, s)
        /\ \A s \in Stages :
             FailedAt(u, s) =>
                /\ \A t \in Stages : FailedAt(u, t) => t = s
                /\ \A op \in LaterOps(s) : ~Called(op, u)
                /\ HasReason(failed_objects, u) =>
                      failed_objects[u]["failure_reason"] \in StageCodes(s)

C12_EntryNeverRewritten ==
    \A u \in DOMAIN failed_objects :
        u \in DOMAIN failed_objects' /\ failed_objects'[u] = failed_objects[u]

C12_OneReasonOfFirstFailure ==
    [] C12_EntryNamesFirstFailure /\ [][C12_EntryNeverRewritten]_vars

\* Asset 1 failed at its conversion and has its entry, asset 2 has since
\* gone through every stage and has none.
C12_Witness ==
    /\ pc = "returned"
    /\ ~aborted
    /\ FailedAt(1, "conversion")
    /\ HasReason(failed_objects, 1)
    /\ CalledWith("write_metadata", 2, "ok")
    /\ 2 \notin DOMAIN failed_objects

(***************************************************************************)
(* C13.  A conversion whose communicate timed out has killed the process   *)
(* and then waited for it before glb_to_thor gives its verdict: in the log *)
(* of that asset the expiry is followed at once by kill, wait and the      *)
(* verdict, in this order, and glb_to_thor returns False.  "The process"   *)
(* is the one Popen started (with shell=True, the shell).                  *)
(***************************************************************************)
C13_TimeoutKillsThenWaits ==
    /\ \A i \in DOMAIN log :
          log[i].op = "communicate" =>
             /\ log[i].res = "timeout"
             /\ i + 3 <= Len(log)
             /\ log[i + 1] = Call("kill", log[i].uid, "ok")
             /\ log[i + 2] = Call("wait", log[i].uid, "ok")
             /\ log[i + 3] = Call("conversion", log[i].uid, "fail")
    /\ last_conversion.proc = "timeout" =>
          /\ ~last_conversion.success
          /\ \E i \in DOMAIN log :
                log[i] = Call("communicate", last_conversion.uid, "timeout")

\* The conversion of asset 1 timed out and the run went on to asset 2.
C13_Witness ==
    /\ CalledWith("communicate", 1, "timeout")
    /\ CalledWith("kill", 1, "ok")
    /\ CalledWith("wait", 1, "ok")
    /\ Called("conversion", 2)

(***************************************************************************)
(* C14.  No retries: within one run the conversion process, the collider   *)
(* generator, the asset load and the render are each called at most once   *)
(* for an asset, whatever the outcome of the call.                         *)
(***************************************************************************)
Collaborators == {"conversion", "colliders", "load", "render"}

C14_NoRetries ==
    \A u \in Uids : \A op \in Collaborators : Cardinality(Calls(op, u)) <= 1

\* A run that met a timeout for asset 1 and a failure of the collider
\* generator for asset 2, and went through to its return.
C14_Witness ==
    /\ pc = "returned"
    /\ CalledWith("communicate", 1, "timeout")
    /\ CalledWith("colliders", 2, "fail")

\* A run in which the load of asset 1 and the render of asset 2 failed.
C14_WitnessValidation ==
    /\ pc = "returned"
    /\ CalledWith("load", 1, "fail")
    /\ CalledWith("render", 2, "fail")

(***************************************************************************)
(* C15.  The exit status of the interpreter that ran main tells the three  *)
(* outcomes of the batch apart: 0 exactly when the ledger is empty and no  *)
(* exception ended the loop, 1 (the status of an uncaught exception)       *)
(* exactly when an exception ended the loop, and another status when the   *)
(* loop ended with a ledger that is not empty.  The code exits with 0 in   *)
(* all three: optimize_assets_for_thor swallows the exception and main     *)
(* drops the ledger.                                                       *)
(***************************************************************************)
BatchOutcome ==
    IF aborted THEN "hard crash"
    ELSE IF DOMAIN returned[1] = {} THEN "full success"
    ELSE "partial failure"

C16_ExitCodeClassification ==
    LET u == last_conversion.uid
    IN  /\ (last_conversion.proc = "exit0" /\ last_conversion.objExists) =>
              /\ CalledWith("conversion", u, "ok")
              /\ Called("compress", u)
              /\ last_conversion.success <=> last_conversion.compress = "ok"
        /\ (last_conversion.proc = "nonzero" /\ ~last_conversion.marker) =>
              /\ ~last_conversion.success
              /\ CalledWith("conversion", u, "fail")
              /\ ~Called("compress", u)
              /\ u \in DOMAIN failed_objects
              /\ failed_objects[u] = [failure_reason |-> BLENDER_PROCESS_FAIL,
                                      blender_output |-> OUT_PLAIN_TRACE]

\* Blender exited nonzero although it wrote <uid>.obj.
C16_Witness ==
    /\ last_conversion.proc = "nonzero"
    /\ ~last_conversion.marker
    /\ last_conversion.objExists
    /\ HasReason(failed_objects, last_conversion.uid)

\* Blender exited with 0 and wrote <uid>.obj.
C16_WitnessSuccess ==
    /\ last_conversion.proc = "exit0"
    /\ last_conversion.objExists
    /\ ~last_conversion.marker
    /\ last_conversion.success

C18_ResetBeforeEveryLoad ==
    \A i \in DOMAIN log :
        log[i].op = "load" =>
            /\ i > 2
            /\ log[i - 2] = Call("reset", log[i].uid, "ok")
            /\ log[i - 1] = Call("cache_clear", log[i].uid, "ok")

\* Two assets were loaded into one session, one after the other.
C18_Witness ==
    /\ Called("load", 1)
    /\ Called("load", 2)
    /\ Cardinality({i \in DOMAIN log : log[i].op = "create_controller"}) <= 1

(***************************************************************************)
(* C19.  A run that follows an earlier run starts on an empty ledger, at   *)
(* every point holds entries only for assets a stage of this run failed    *)
(* for, and, when every collaborator succeeds, returns an empty ledger:    *)
(* the one the earlier run returned if all its assets succeeded too.       *)
(* (Checked on SpecRerun.)                                                 *)
(***************************************************************************)
AllCallsSucceeded == \A i \in DOMAIN log : log[i].res = "ok"

C19_RerunStartsAndEndsEmpty ==
    /\ (pc = "loop" /\ idx = 0) => failed_objects = EmptyLedger
    /\ \A u \in DOMAIN failed_objects : \E s \in Stages : FailedAt(u, s)
    /\ (pc = "returned" /\ ~aborted /\ AllCallsSucceeded) =>
          /\ returned[1] = EmptyLedger
          /\ previous = EmptyLedger => returned[1] = previous

\* The second run of a batch whose assets all succeeded in the first run
\* and succeed again, through every stage.
C19_Witness ==
    /\ pc = "returned"
    /\ previous = EmptyLedger
    /\ AllCallsSucceeded
    /\ \A u \in Uids : CalledWith("render", u, "ok") /\ CalledWith("write_metadata", u, "ok")
    /\ returned = << EmptyLedger >>

\* The same after a run that had recorded a failure.
C19_WitnessAfterFailure ==
    /\ pc = "returned"
    /\ previous # EmptyLedger
    /\ AllCallsSucceeded
    /\ \A u \in Uids : CalledWith("write_metadata", u, "ok")
    /\ returned = << EmptyLedger >>

(***************************************************************************)
(* C20.  Stage gating.  For an asset whose pass through the loop body is   *)
(* over: the conversion was called iff skip_conversion is false; the       *)
(* collider generator iff skip_colliders is false and the conversion       *)
(* succeeded or was skipped; the save step iff every earlier stage         *)
(* succeeded and neither of the two was skipped; validation (the session   *)
(* reset that opens it) iff skip_thor_metadata is false and every earlier  *)
(* stage that was not skipped succeeded.  At every point, an asset is in   *)
(* the ledger only if a stage that ran for it failed.                      *)
(***************************************************************************)
BodyOver(u) ==
    \/ u < idx
    \/ u = idx /\ pc = "loop"
    \/ u = idx /\ pc \in {"finally", "returned"} /\ ~aborted

ConversionPassed(u) ==
    \/ args.skip_conversion
    \/ CalledWith("conversion", u, "ok") /\ CalledWith("compress", u, "ok")

CollidersPassed(u) ==
    /\ ConversionPassed(u)
    /\ args.skip_colliders \/ CalledWith("colliders", u, "ok")

C20_StageGating ==
    \A u \in Uids :
        /\ BodyOver(u) =>
              /\ Called("conversion", u) <=> ~args.skip_conversion
              /\ Called("colliders", u) <=>
                    (~args.skip_colliders /\ ConversionPassed(u))
              /\ Called("save", u) <=>
                    (CollidersPassed(u) /\ ~args.skip_conversion /\ ~args.skip_colliders)
              /\ Called("reset", u) <=>
                    (~args.skip_thor_metadata /\ CollidersPassed(u))
        /\ u \in DOMAIN failed_objects => \E stage \in Stages : FailedAt(u, stage)

\* With the conversion skipped the colliders and the validation ran for an
\* asset and the save step did not.
C20_Witness ==
    /\ args.skip_conversion
    /\ ~args.skip_colliders
    /\ ~args.skip_thor_metadata
    /\ BodyOver(1)
    /\ ~Called("conversion", 1)
    /\ CalledWith("colliders", 1, "ok")
    /\ ~Called("save", 1)
    /\ Called("reset", 1)
    /\ 1 \notin DOMAIN failed_objects

\* With no stage skipped, an asset whose conversion failed went through
\* none of the later stages.
C20_WitnessGatedByFailure ==
    /\ ~args.skip_conversion /\ ~args.skip_colliders /\ ~args.skip_thor_metadata
    /\ BodyOver(1)
    /\ FailedAt(1, "conversion")
    /\ \A op \in LaterOps("conversion") : ~Called(op, 1)

(***************************************************************************)
(* C21.  The function returns the negation of a sampled angle whose biased *)
(* volume (the middle candidate's scaled by 1 - bias_for_no_rotation) no   *)
(* other candidate undercuts, and of the candidates tied for the least     *)
(* volume it takes the first of the grid: every candidate before it has a  *)
(* strictly greater volume.                                                *)
(***************************************************************************)
SampledThetas ==
    linspace(-rot_in.max_deg_change, rot_in.max_deg_change, rot_in.increments)

SampledVolumes ==
    biased_volumes(rot_in.vertices, SampledThetas, rot_in.bias_for_no_rotation)

C21_ReturnsFirstLeastVolume ==
    rot_pc = "done" =>
        \E i \in 1..Len(SampledThetas) :
            /\ rot_out = -SampledThetas[i]
            /\ \A j \in 1..Len(SampledThetas) : SampledVolumes[i] <= SampledVolumes[j]
            /\ \A j \in 1..Len(SampledThetas) :
                  SampledVolumes[j] = SampledVolumes[i] => SampledThetas[j] >= SampledThetas[i]

\* Two angles of opposite sign tie for the least volume, below the biased
\* volume of the middle candidate: the negative one is taken and the
\* returned value is positive.
C21_Witness ==
    /\ rot_pc = "done"
    /\ rot_out > 0
    /\ \E i, j \in 1..Len(SampledThetas) :
          /\ SampledThetas[i] = -rot_out
          /\ SampledThetas[j] = rot_out
          /\ SampledVolumes[i] = SampledVolumes[j]
          /\ SampledVolumes[i] < SampledVolumes[(Len(SampledThetas) \div 2) + 1]

(***************************************************************************)
(* Functions and steps run on their own, outside a batch.                  *)
(***************************************************************************)
PipelineOff ==
    /\ args = [skip_conversion |-> FALSE, skip_colliders |-> FALSE,
               skip_thor_metadata |-> FALSE, skip_thor_render |-> FALSE,
               report_out_file_name |-> "failed_objects.json",
               timeout |-> "None"]
    /\ controller = "None"
    /\ given_controller = FALSE
    /\ pc = "off"
    /\ idx = 0
    /\ success = TRUE
    /\ asset_metadata = "None"
    /\ failed_objects = EmptyLedger
    /\ report = NoFile
    /\ returned = NotReturned
    /\ aborted = FALSE
    /\ log = << >>
    /\ last_conversion = NoConversion
    /\ previous = EmptyLedger
    /\ exit_status = Running

RotOff ==
    /\ rot_in = << >>
    /\ rot_pc = "off"
    /\ rot_out = 0

(***************************************************************************)
(* validate_in_thor called once, for an asset that has no ledger entry, on *)
(* a ledger that is empty or holds the entry of another asset.             *)
(***************************************************************************)
ValidateArgs ==
    {a \in [uid : Uids, failed_objects : PreviousLedgers,
            reset : CallOutcomes, cache : CallOutcomes, load : LoadOutcomes,
            render : RenderOutcomes, skip_images : BOOLEAN] :
        a.uid \notin DOMAIN a.failed_objects}

InitValidate ==
    /\ call_in \in ValidateArgs
    /\ call_pc = "validate_in_thor"
    /\ call_out = << >>
    /\ PipelineOff
    /\ RotOff

ValidateCall ==
    /\ call_pc = "validate_in_thor"
    /\ call_pc' = "done"
    /\ call_out' = validate_in_thor(call_in.uid, call_in.failed_objects,
                                    call_in.reset, call_in.cache, call_in.load,
                                    call_in.render, call_in.skip_images)
    /\ UNCHANGED << call_in, pipeVars, rotVars >>

NextValidate == ValidateCall

SpecValidate == InitValidate /\ [][NextValidate]_vars

\* The session was reset and create_asset was called.
LoadReached == call_in.reset = "ok" /\ call_in.cache = "ok"

\* create_asset reported success and view_asset_in_thor was called.
RenderReached ==
    LoadReached /\ call_in.load \in {"ok", "ok_no_metadata"} /\ ~call_in.skip_images

Rendered == \E i \in DOMAIN call_out.calls : call_out.calls[i].op = "render"

\* The call returned False and left the entry for its asset with this code.
RecordedAs(reason) ==
    /\ ~call_out.raised
    /\ ~call_out.success
    /\ call_in.uid \in DOMAIN call_out.failed_objects
    /\ call_out.failed_objects[call_in.uid]["failure_reason"] = reason

(***************************************************************************)
(* C22.  validate_in_thor tells a failed load from a failed render: a load *)
(* that reports failure is recorded as thor_create_asset_fail and no       *)
(* render is called; a render that reports failure is recorded as          *)
(* thor_view_asset_in_thor_fail; with skip_images no render is called and  *)
(* a successful load makes the call return True with the ledger as it      *)
(* was; an exception of the load or of the render is recorded as           *)
(* thor_process_fail, with its trace, and does not leave the function.     *)
(***************************************************************************)
C22_LoadAndRenderFailures ==
    call_pc = "done" =>
        /\ (LoadReached /\ call_in.load = "fail") =>
              RecordedAs(THOR_CREATE_ASSET_FAIL) /\ ~Rendered
        /\ (RenderReached /\ call_in.render = "fail") =>
              RecordedAs(THOR_VIEW_ASSET_FAIL)
        /\ call_in.skip_images => ~Rendered
        /\ (LoadReached /\ call_in.skip_images
                /\ call_in.load \in {"ok", "ok_no_metadata"}) =>
              /\ ~call_out.raised
              /\ call_out.success
              /\ call_out.failed_objects = call_in.failed_objects
        /\ (\/ LoadReached /\ call_in.load = "raise"
            \/ RenderReached /\ call_in.render = "raise") =>
              /\ RecordedAs(THOR_PROCESS_FAILURE)
              /\ "exception" \in DOMAIN call_out.failed_objects[call_in.uid]

\* The load succeeded and the render reported failure.
C22_Witness ==
    /\ call_pc = "done"
    /\ RenderReached
    /\ call_in.render = "fail"
    /\ Rendered
    /\ RecordedAs(THOR_VIEW_ASSET_FAIL)

\* The load reported failure.
C22_WitnessLoad ==
    /\ call_pc = "done"
    /\ LoadReached
    /\ call_in.load = "fail"
    /\ RecordedAs(THOR_CREATE_ASSET_FAIL)

(***************************************************************************)
(* C23.  When the compression / rotation / re-save block of glb_to_thor    *)
(* raises after a conversion that counted as successful, the asset's entry *)
(* is failure_reason png_to_jpg_compression_fail with the trace under      *)
(* "exception", glb_to_thor returns False, and neither the collider        *)
(* generator nor the save step nor validation is called for the asset.     *)
(***************************************************************************)
C23_CompressionFailure ==
    \A u \in Uids :
        CalledWith("compress", u, "fail") =>
            /\ CalledWith("conversion", u, "ok")
            /\ u \in DOMAIN failed_objects
            /\ failed_objects[u] = [failure_reason |-> IMAGE_COMPRESS_FAIL,
                                    exception |-> "trace"]
            /\ last_conversion.uid = u => ~last_conversion.success
            /\ \A op \in LaterOps("conversion") : ~Called(op, u)

\* The block raised for asset 1 and the run went through asset 2 to its
\* return.
C23_Witness ==
    /\ pc = "returned"
    /\ ~aborted
    /\ CalledWith("compress", 1, "fail")
    /\ CalledWith("write_metadata", 2, "ok")

(***************************************************************************)
(* The save / re-encode step of optimize_assets_for_thor (lines 527-567)   *)
(* and the function save_asset_as (lines 61-76), run once on an asset      *)
(* directory.  Inputs: the requested extension, keep_json_asset, whether   *)
(* <uid>.json is in the directory, and whether the calls of the step       *)
(* raise: `save` is load_existing_thor_asset_file / add_default_           *)
(* annotations / save_thor_asset_file, `remove` is os.remove, `sizes` is   *)
(* the size report of lines 556-567.  get_existing_thor_asset_file_path    *)
(* with force_extension=".json" returns the path of <uid>.json when the    *)
(* file is there and raises RuntimeError when it is not, the exception the *)
(* handler of line 553 is written for.                                     *)
(***************************************************************************)
Extensions == {".json", ".msgpack.gz"}

\* As if the removal looked at keep_json_asset alone.
removes_json_unless_kept(extension, keep_json_asset) == ~keep_json_asset

\* Lines 72 and 544.
removes_json(extension, keep_json_asset) ==
    extension # ".json" /\ ~keep_json_asset

\* <uid>.json after save_thor_asset_file wrote the file of the extension.
json_after_save(extension, json_exists) == json_exists \/ extension = ".json"

\* Lines 527-567.  `raised`: an exception left the step; `json_exists`:
\* <uid>.json is in the directory afterwards; `removed`: os.remove deleted it.
save_step(extension, keep_json_asset, json_exists, save, remove, sizes) ==
    LET saved == json_after_save(extension, json_exists)
    IN  IF save = "raise"
        THEN [raised |-> TRUE, json_exists |-> json_exists, removed |-> FALSE]
        ELSE IF ~removes_json(extension, keep_json_asset) \/ ~saved
        THEN [raised |-> sizes = "raise", json_exists |-> saved, removed |-> FALSE]
        ELSE IF remove = "raise"
        THEN [raised |-> TRUE, json_exists |-> saved, removed |-> FALSE]
        ELSE [raised |-> sizes = "raise", json_exists |-> FALSE, removed |-> TRUE]

\* Lines 61-76: the same without the handler of RuntimeError and without the
\* size report.
save_asset_as(extension, keep_json_asset, json_exists, save, remove) ==
    LET saved == json_after_save(extension, json_exists)
    IN  IF save = "raise"
        THEN [raised |-> TRUE, json_exists |-> json_exists, removed |-> FALSE]
        ELSE IF ~removes_json(extension, keep_json_asset)
        THEN [raised |-> FALSE, json_exists |-> saved, removed |-> FALSE]
        ELSE IF ~saved \/ remove = "raise"
        THEN [raised |-> TRUE, json_exists |-> saved, removed |-> FALSE]
        ELSE [raised |-> FALSE, json_exists |-> FALSE, removed |-> TRUE]

SaveArgs ==
    [fn : {"save_step", "save_asset_as"}, extension : Extensions,
     keep_json_asset : BOOLEAN, json_exists : BOOLEAN,
     save : CallOutcomes, remove : CallOutcomes, sizes : CallOutcomes]

InitSave ==
    /\ call_in \in SaveArgs
    /\ call_pc = call_in.fn
    /\ call_out = << >>
    /\ PipelineOff
    /\ RotOff

SaveStepCall ==
    /\ call_pc = "save_step"
    /\ call_pc' = "done"
    /\ call_out' = save_step(call_in.extension, call_in.keep_json_asset,
                             call_in.json_exists, call_in.save, call_in.remove,
                             call_in.sizes)
    /\ UNCHANGED << call_in, pipeVars, rotVars >>

SaveAssetAsCall ==
    /\ call_pc = "save_asset_as"
    /\ call_pc' = "done"
    /\ call_out' = save_asset_as(call_in.extension, call_in.keep_json_asset,
                                 call_in.json_exists, call_in.save, call_in.remove)
    /\ UNCHANGED << call_in, pipeVars, rotVars >>

NextSave ==
    \/ SaveStepCall
    \/ SaveAssetAsCall

SpecSave == InitSave /\ [][NextSave]_vars

(***************************************************************************)
(* C24.  The step removes <uid>.json only when the extension is not        *)
(* ".json" and keep_json_asset is false, and then it does remove it when   *)
(* the step runs through and the file is there; with the extension ".json" *)
(* or with keep_json_asset a file that is there stays (and with ".json" is *)
(* there after the save).  In the step of optimize_assets_for_thor a       *)
(* missing <uid>.json raises nothing: the step ends as it would without    *)
(* the removal.                                                            *)
(***************************************************************************)
C24_JsonRemoval ==
    call_pc = "done" =>
        LET wanted == call_in.extension # ".json" /\ ~call_in.keep_json_asset
        IN  /\ call_out.removed => wanted
            /\ ~call_out.raised =>
                  (call_out.removed <=>
                     (wanted /\ json_after_save(call_in.extension, call_in.json_exists)))
            /\ call_out.removed => ~call_out.json_exists
            /\ ~wanted =>
                  /\ call_in.json_exists => call_out.json_exists
                  /\ (call_in.extension = ".json" /\ call_in.save = "ok")
                        => call_out.json_exists
            /\ (/\ call_in.fn = "save_step"
                /\ wanted
                /\ ~call_in.json_exists
                /\ call_in.save = "ok"
                /\ call_in.sizes = "ok") => ~call_out.raised

\* The step of optimize_assets_for_thor removed the file.
C24_Witness ==
    /\ call_pc = "done"
    /\ call_in.fn = "save_step"
    /\ call_in.extension = ".msgpack.gz"
    /\ ~call_in.keep_json_asset
    /\ call_in.json_exists
    /\ call_out.removed
    /\ ~call_out.raised

\* The file was missing and the step ran through.
C24_WitnessMissing ==
    /\ call_pc = "done"
    /\ call_in.fn = "save_step"
    /\ call_in.extension = ".msgpack.gz"
    /\ ~call_in.keep_json_asset
    /\ ~call_in.json_exists
    /\ ~call_out.raised

(***************************************************************************)
(* C25.  thor_metadata.json is written for an asset only after validation  *)
(* ran for it and returned success with metadata (the load succeeded, the  *)
(* render succeeded or was skipped, the metadata was not None), and for an *)
(* asset whose loop body is over it has been written iff that is so.  It   *)
(* is not written for an asset whose load or render failed, nor when       *)
(* validation is skipped.                                                  *)
(***************************************************************************)
ValidatedWithMetadata(u) ==
    /\ CalledWith("load", u, "ok")
    /\ args.skip_thor_render \/ CalledWith("render", u, "ok")
    /\ ~Called("assert_metadata", u)

C25_MetadataWrittenIffValidated ==
    \A u \in Uids :
        /\ Called("write_metadata", u) =>
              /\ ValidatedWithMetadata(u)
              /\ ~args.skip_thor_metadata
              /\ ~FailedAt(u, "validation")
        /\ BodyOver(u) =>
              (CalledWith("write_metadata", u, "ok") <=> ValidatedWithMetadata(u))

\* The file was written for asset 2 and not for asset 1, whose render
\* failed after the load had returned metadata.
C25_Witness ==
    /\ pc = "returned"
    /\ CalledWith("load", 1, "ok")
    /\ CalledWith("render", 1, "fail")
    /\ ~Called("write_metadata", 1)
    /\ CalledWith("write_metadata", 2, "ok")

(***************************************************************************)
(* C26.  At every boundary between stages of the loop body (before the     *)
(* conversion, the colliders, the save step, validation and the metadata   *)
(* write, and at the end of the body) the flag `success` is true iff the   *)
(* ledger has no entry for the asset at hand.  So validate_in_thor, which  *)
(* runs only when the flag is true, writes its entry where there was none. *)
(***************************************************************************)
StageBoundary ==
    \/ pc \in {"conversion", "colliders", "save", "validate", "metadata"}
    \/ pc = "loop" /\ idx > 0

C26_SuccessIffNoEntry ==
    StageBoundary => (success <=> uid \notin DOMAIN failed_objects)

\* Before validation of asset 2, with the flag false after its colliders
\* failed, and with an entry for asset 1 in the ledger.
C26_Witness ==
    /\ pc = "validate"
    /\ idx = 2
    /\ ~success
    /\ DOMAIN failed_objects = {1, 2}

(***************************************************************************)
(* C27.  When the annotations of an asset are missing from the annotations *)
(* directory, nothing is called for that asset or a later one (the only    *)
(* call after the error is the stop of a session the run created), neither *)
(* has a ledger entry, no report file is written, and the run returns the  *)
(* ledger with the failures of the assets before it.                       *)
(***************************************************************************)
C27_MissingAnnotationsEndTheRun ==
    \A i \in DOMAIN log :
        log[i].op = "annotations" =>
            /\ aborted
            /\ pc \in {"finally", "returned"}
            /\ \A j \in DOMAIN log :
                  /\ j > i => log[j].op = "stop"
                  /\ j < i => log[j].uid < log[i].uid
            /\ \A u \in Uids : u >= log[i].uid => u \notin DOMAIN failed_objects
            /\ report = NoFile
            /\ pc = "returned" =>
                  /\ returned = << failed_objects >>
                  /\ \A u \in Uids :
                        (\E s \in Stages : FailedAt(u, s)) => u \in DOMAIN returned[1]

\* The annotations of asset 2 were missing after asset 1 had failed.
C27_Witness ==
    /\ pc = "returned"
    /\ CalledWith("annotations", 2, "raised")
    /\ \E s \in Stages : FailedAt(1, s)
    /\ args.report_out_file_name # "None"
    /\ 1 \in DOMAIN returned[1]

(***************************************************************************)
(* C28.  A run creates one session at most.  It creates it when the first  *)
(* asset reaches validation and the caller gave none: the creation comes   *)
(* right before the first session reset of the run, and every validation   *)
(* of a run without a given session has a creation before it.  No session  *)
(* is created when skip_thor_metadata is set or no asset reaches           *)
(* validation.                                                             *)
(***************************************************************************)
Creations == {i \in DOMAIN log : log[i].op = "create_controller"}

C28_OneLazySession ==
    /\ Cardinality(Creations) <= 1
    /\ \A i \in Creations :
          /\ ~given_controller
          /\ ~args.skip_thor_metadata
          /\ \A j \in 1..(i - 1) : log[j].op \notin StageOps("validation")
          /\ log[i].res = "ok" =>
                /\ controller = "created"
                /\ i < Len(log)
                /\ log[i + 1].op = "reset"
                /\ log[i + 1].uid = log[i].uid
    /\ \A i \in DOMAIN log :
          (log[i].op = "reset" /\ ~given_controller) =>
              \E j \in Creations : j < i /\ log[j].res = "ok"
    /\ Creations = {} => controller \in {"None", "given"}

\* One session served the validation of both assets.
C28_Witness ==
    /\ Cardinality(Creations) = 1
    /\ CalledWith("reset", 1, "ok")
    /\ CalledWith("reset", 2, "ok")

\* The conversion of asset 1 failed: the session was created for asset 2.
C28_WitnessLazy ==
    /\ CalledWith("create_controller", 2, "ok")
    /\ FailedAt(1, "conversion")

(***************************************************************************)
(* get_embeddings and get_lemmas_definition_embeddings of                  *)
(* annotation/embed_synset_definitions.py, run once.  all_synsets() is the *)
(* list 1 .. NumSynsets.  Inputs: the function, whether the embeddings     *)
(* file is there, and the synsets it holds.  Every call that can raise     *)
(* does so or not: compress_pickle.load, the lookups of the synset         *)
(* (synset_definitions, synset_lemmas, synset_hypernyms, synset_hyponyms), *)
(* get_embedding, compress_pickle.dump.  call_out holds the locals `data`  *)
(* (its keys) and `num_additions`, the keys of the file on disk, the index *)
(* of the next synset, and three records of what happened: `embedded`, the *)
(* synsets get_embedding was called for, `final_save`, whether the dump of *)
(* the finally clause was called, `checkpoints`, the dumps of line 192     *)
(* that returned, and `pending`, the exception on its way out.             *)
(***************************************************************************)
CheckpointAdditions == 1000

NumSynsets == 1002

MaxLoaded == 2

all_synsets == [i \in 1..NumSynsets |-> i]

EmbedFns == {"get_embeddings", "get_lemmas_definition_embeddings"}

EmbedArgs ==
    {a \in [fn : EmbedFns, isfile : BOOLEAN, loaded : SUBSET (1..MaxLoaded)] :
        ~a.isfile => a.loaded = {}}

\* The function is entered: nothing is loaded yet, the file is as it was.
embed_entry(loaded) ==
    [data |-> {}, file |-> loaded, num_additions |-> 0, i |-> 1,
     embedded |-> {}, final_save |-> FALSE, checkpoints |-> 0,
     pending |-> "None"]

\* Lines 22-27 and 102-105, 121.
load_data(o, isfile, loaded, load) ==
    IF ~isfile THEN o
    ELSE IF load = "raise" THEN [o EXCEPT !.pending = "load"]
    ELSE [o EXCEPT !.data = loaded]

\* Lines 30 and 124.
needs_embedding(synset_str, data) == synset_str \notin data

\* Line 190: only the lemmas variant saves while it loops.
checkpoint_due(fn, num_additions) ==
    fn = "get_lemmas_definition_embeddings" /\ num_additions = CheckpointAdditions

\* Lines 32-35 and 127-193: one synset that is not in data.
embed_synset(fn, o, synset_str, lookup, service, dump) ==
    IF lookup = "raise" THEN [o EXCEPT !.pending = "lookup"]
    ELSE IF service = "raise"
    THEN [o EXCEPT !.embedded = @ \cup {synset_str}, !.pending = "service"]
    ELSE LET added == [o EXCEPT !.embedded = @ \cup {synset_str},
                                !.data = @ \cup {synset_str},
                                !.num_additions = @ + 1]
         IN  IF ~checkpoint_due(fn, added.num_additions) THEN added
             ELSE IF dump = "raise" THEN [added EXCEPT !.pending = "dump"]
             ELSE [added EXCEPT !.file = added.data,
                                !.num_additions = 0,
                                !.checkpoints = @ + 1]

\* As if a single addition were not worth a save.
save_due_above_one(num_additions) == num_additions > 1

\* Lines 37 and 195.
save_due(num_additions) == num_additions > 0

\* Lines 36-39 and 194-197.  An exception of the dump replaces the one that
\* was on its way out.
final_save(o, dump) ==
    IF ~save_due(o.num_additions) THEN o
    ELSE IF dump = "raise" THEN [o EXCEPT !.final_save = TRUE, !.pending = "dump"]
    ELSE [o EXCEPT !.final_save = TRUE, !.file = o.data]

\* Where the loop goes after the synset at index i.
after_synset(o) ==
    IF o.pending # "None" \/ o.i > NumSynsets THEN "finally" ELSE "loop"

InitEmbed ==
    /\ call_in \in EmbedArgs
    /\ call_pc = "load"
    /\ call_out = embed_entry(call_in.loaded)
    /\ PipelineOff
    /\ RotOff

EmbedLoad ==
    /\ call_pc = "load"
    /\ \E load \in CallOutcomes :
          /\ call_out' = load_data(call_out, call_in.isfile, call_in.loaded, load)
          /\ call_pc' = IF call_out'.pending = "None" THEN "loop" ELSE "raised"
    /\ UNCHANGED << call_in, pipeVars, rotVars >>

EmbedSkip ==
    /\ call_pc = "loop"
    /\ ~needs_embedding(all_synsets[call_out.i], call_out.data)
    /\ call_out' = [call_out EXCEPT !.i = @ + 1]
    /\ call_pc' = after_synset(call_out')
    /\ UNCHANGED << call_in, pipeVars, rotVars >>

EmbedAdd ==
    /\ call_pc = "loop"
    /\ needs_embedding(all_synsets[call_out.i], call_out.data)
    /\ \E lookup \in CallOutcomes, service \in CallOutcomes, dump \in CallOutcomes :
          call_out' = [embed_synset(call_in.fn, call_out, all_synsets[call_out.i],
                                    lookup, service, dump)
                          EXCEPT !.i = @ + 1]
    /\ call_pc' = after_synset(call_out')
    /\ UNCHANGED << call_in, pipeVars, rotVars >>

EmbedFinally ==
    /\ call_pc = "finally"
    /\ \E dump \in CallOutcomes : call_out' = final_save(call_out, dump)
    /\ call_pc' = IF call_out'.pending = "None" THEN "returned" ELSE "raised"
    /\ UNCHANGED << call_in, pipeVars, rotVars >>

NextEmbed ==
    \/ EmbedLoad
    \/ EmbedSkip
    \/ EmbedAdd
    \/ EmbedFinally

SpecEmbed == InitEmbed /\ [][NextEmbed]_vars

\* The function is over: it returned data or an exception left it.
EmbedExited == call_pc \in {"returned", "raised"}

\* Entries of data that are not in the file on disk.
NotPersisted == call_out.data \ call_out.file

(***************************************************************************)
(* C29.  In both functions: between two synsets and on entry to the        *)
(* finally clause num_additions is the number of entries of data that are  *)
(* not in the file; get_embedding is never called for a synset the loaded  *)
(* file holds; the dump of the finally clause is called exactly when       *)
(* num_additions is positive; and when the function is over, returned or   *)
(* left by an exception of a lookup or of get_embedding, the file holds    *)
(* every entry of data.                                                    *)
(***************************************************************************)
C29_ComputedEmbeddingsAreSaved ==
    /\ call_pc \in {"loop", "finally"} =>
          call_out.num_additions = Cardinality(NotPersisted)
    /\ call_out.embedded \cap call_in.loaded = {}
    /\ EmbedExited =>
          /\ call_out.final_save <=> call_out.num_additions > 0
          /\ call_out.pending \in {"None", "lookup", "service"} =>
                NotPersisted = {}

\* The lemmas variant loaded a file, saved at the checkpoint, added one more
\* entry and saved it on its way out.
C29_Witness ==
    /\ call_pc = "returned"
    /\ call_in.fn = "get_lemmas_definition_embeddings"
    /\ call_in.loaded # {}
    /\ call_out.checkpoints = 1
    /\ call_out.final_save
    /\ call_out.num_additions = 1
    /\ NotPersisted = {}

\* get_embedding raised after entries were added, and the finally clause
\* saved them.
C29_WitnessRaised ==
    /\ call_pc = "raised"
    /\ call_out.pending = "service"
    /\ call_out.final_save
    /\ call_out.num_additions > 1
    /\ call_out.embedded # {}
    /\ NotPersisted = {}

====
